---- MODULE Spec2Model ----
(***************************************************************************)
(* The replay subsystem of strategka-core: the Replay aggregate (new,      *)
(* record, encode, decode, save, load), the binary container writer and    *)
(* the nom-style parser, modelled on byte sequences.                       *)
(*                                                                         *)
(* The World the model is instantiated with is tests::TestWorld2           *)
(* (field1: u32) with Input = TestInput2 (Add(u32) | Sub(u32)).            *)
(***************************************************************************)
EXTENDS Integers, Sequences, FiniteSets, TLC

(***************************************************************************)
(* Bounds of the model.                                                    *)
(***************************************************************************)
\* turns offered to record are 0..MaxTurn
MaxTurn == 2
\* record is offered while it leaves the log with at most MaxLog entries
MaxLog == 2
\* a source delivers at most c bytes per read, c in 1..MaxChunk or CHUNK_SIZE
MaxChunk == 3
\* the reads of a load that delivered no byte are counted up to MaxZeroReads
MaxZeroReads == 3
\* a written block loses up to MaxCut bytes of its payload's end
MaxCut == 2

(***************************************************************************)
(* Bytes and fixed-width big-endian integers.                              *)
(***************************************************************************)
Min(a, b) == IF a < b THEN a ELSE b

Drop(s, n) == SubSeq(s, n + 1, Len(s))

Take(s, n) == SubSeq(s, 1, n)

\* u32::to_be_bytes / u64::to_be_bytes: w bytes, most significant first.
\* Values of the model stay below 2^31, so bytes above the fourth are 0.
to_be_bytes(value, w) ==
    [i \in 1..w |-> IF w - i >= 4 THEN 0
                    ELSE (value \div (256 ^ (w - i))) % 256]

RECURSIVE from_be_bytes(_)
from_be_bytes(bs) ==
    IF bs = <<>> THEN 0
    ELSE from_be_bytes(Take(bs, Len(bs) - 1)) * 256 + bs[Len(bs)]

encode_be_u32(value) == to_be_bytes(value, 4)

encode_be_u64(value) == to_be_bytes(value, 8)

(***************************************************************************)
(* The World: tests::TestWorld2 and TestInput2.                            *)
(***************************************************************************)
\* b"TWD2"
magic_bytes == <<84, 87, 68, 50>>

current_version == 1

guard_version(version) == version = current_version

\* TestWorld2 { field1 }: the derived Default has field1 = 0
World(f) == [field1 |-> f]

WorldDefault == World(0)

Add(n) == [variant |-> "Add", arg |-> n]

Sub(n) == [variant |-> "Sub", arg |-> n]

(***************************************************************************)
(* The inputs of the operations: the values the tests use.                 *)
(***************************************************************************)
Worlds == {WorldDefault, World(42)}

Rates == {60, 15360}

Batches == {<<>>, <<Add(4)>>, <<Sub(2), Add(8)>>}

Turns == 0..MaxTurn

(***************************************************************************)
(* Results: Option, Result and nom's IResult / Err.                        *)
(***************************************************************************)
None == [some |-> FALSE]

Some(v) == [some |-> TRUE, value |-> v]

\* nom: Ok((remaining input, value))
POk(rest, value) == [tag |-> "Ok", rest |-> rest, value |-> value]

\* nom: Err(Err::Incomplete(Needed::new(n)))
PIncomplete(n) == [tag |-> "Incomplete", needed |-> n]

\* nom: Err(Err::Error(e))
PError(e) == [tag |-> "Error", err |-> e]

\* nom: Err(Err::Failure(e))
PFailure(e) == [tag |-> "Failure", err |-> e]

\* the parser does not return: the thread panics
PPanic == [tag |-> "Panic"]

\* GenericError
IncoherentTurn(last, turn) == [kind |-> "IncoherentTurn", last |-> last, turn |-> turn]

InvalidMagic(found) == [kind |-> "InvalidMagic", found |-> found]

UnsupportedCoreVersion(v) == [kind |-> "UnsupportedCoreVersion", version |-> v]

UnsupportedGameVersion(v) == [kind |-> "UnsupportedGameVersion", version |-> v]

MissingTurnInput == [kind |-> "MissingTurnInput"]

Parsing(input, errkind) == [kind |-> "Parsing", input |-> input, errkind |-> errkind]

InvalidLength(found, has) == [kind |-> "InvalidLength", found |-> found, has |-> has]

Decoder == [kind |-> "Decoder"]

Encoder == [kind |-> "Encoder"]

Context(label, other) == [kind |-> "Context", label |-> label, inner |-> other]

ErrIncomplete(needed) == [kind |-> "Incomplete", needed |-> needed]

\* the cause of an error: what is left when every Context wrapper is removed
RECURSIVE Cause(_)
Cause(e) == IF e.kind = "Context" THEN Cause(e.inner) ELSE e

\* context whose add_context keeps one label: the new label replaces the
\* labels the error already has
context_one_label(label, res) ==
    IF res.tag \in {"Error", "Failure"}
    THEN [res EXCEPT !.err = Context(label, Cause(@))]
    ELSE res

\* ContextError::add_context under nom::error::context: Error and Failure
\* are wrapped, Ok and Incomplete pass through.
context(label, res) ==
    IF res.tag \in {"Error", "Failure"}
    THEN [res EXCEPT !.err = Context(label, @)]
    ELSE res


(***************************************************************************)
(* ciborium (CBOR) for the World's types.  A derived struct is a map of    *)
(* its fields, a derived enum's newtype variant a one-entry map from the   *)
(* variant's name to its argument, a u32 an unsigned integer in its        *)
(* shortest form.  A serialized value is never empty.                      *)
(***************************************************************************)
cbor_uint(n) ==
    IF n < 24 THEN <<n>>
    ELSE IF n < 256 THEN <<24, n>>
    ELSE IF n < 65536 THEN <<25>> \o to_be_bytes(n, 2)
    ELSE <<26>> \o to_be_bytes(n, 4)

\* map(1), text(6) "field1"
WorldHead == <<161, 102, 102, 105, 101, 108, 100, 49>>

\* map(1), text(3) "Add" / "Sub"
VariantHead(variant) ==
    IF variant = "Add" THEN <<161, 99, 65, 100, 100>>
    ELSE <<161, 99, 83, 117, 98>>

\* ciborium::into_writer behind the WriteZero guard; ty names the type
\* parameter T ("world": W, "input": W::Input)
ciborium_into_writer(ty, value) ==
    IF ty = "world" THEN WorldHead \o cbor_uint(value.field1)
    ELSE VariantHead(value.variant) \o cbor_uint(value.arg)

\* an unsigned integer at the head of bs: [ok, value], what follows is not
\* read (a four-byte argument is read while it stays below 2^31)
cbor_read_uint(bs) ==
    IF bs = <<>> THEN [ok |-> FALSE]
    ELSE IF bs[1] < 24 THEN [ok |-> TRUE, value |-> bs[1]]
    ELSE IF bs[1] = 24 /\ Len(bs) >= 2
         THEN [ok |-> TRUE, value |-> from_be_bytes(SubSeq(bs, 2, 2))]
    ELSE IF bs[1] = 25 /\ Len(bs) >= 3
         THEN [ok |-> TRUE, value |-> from_be_bytes(SubSeq(bs, 2, 3))]
    ELSE IF bs[1] = 26 /\ Len(bs) >= 5 /\ bs[2] < 128
         THEN [ok |-> TRUE, value |-> from_be_bytes(SubSeq(bs, 2, 5))]
    ELSE [ok |-> FALSE]

\* the value read once the head and the integer after it are known
from_reader_value(ty, head, n) ==
    IF ~n.ok THEN [ok |-> FALSE]
    ELSE IF ty = "world"
         THEN IF head = WorldHead
              THEN [ok |-> TRUE, value |-> World(n.value)]
              ELSE [ok |-> FALSE]
    ELSE IF head = VariantHead("Add")
         THEN [ok |-> TRUE, value |-> Add(n.value)]
    ELSE IF head = VariantHead("Sub")
         THEN [ok |-> TRUE, value |-> Sub(n.value)]
    ELSE [ok |-> FALSE]

\* the length of the map header and the text before the integer
HeadLen(ty) == IF ty = "world" THEN 8 ELSE 5

\* ciborium::de::from_reader: one value is read from the head of the slice
\* and the bytes after it are not looked at
from_reader(ty, bs) ==
    IF Len(bs) <= HeadLen(ty) THEN [ok |-> FALSE]
    ELSE from_reader_value(ty, Take(bs, HeadLen(ty)),
                           cbor_read_uint(Drop(bs, HeadLen(ty))))

(***************************************************************************)
(* Encoder (encoder.rs) and Replay::encode.  The sink is the byte sequence *)
(* written; a Vec<u8> or a fresh file never fails a write.                 *)
(***************************************************************************)
\* Magic bytes of the container: ascii STGR
MAGIC_BYTES == <<83, 84, 71, 82>>

REPLAY_FORMAT_VERSION == 1

\* length_encoded that writes nothing at all for an empty body
length_encoded_skip_empty(body) ==
    IF body # <<>> THEN encode_be_u64(Len(body)) \o body ELSE <<>>

length_encoded(body) ==
    encode_be_u64(Len(body)) \o (IF body # <<>> THEN body ELSE <<>>)

RECURSIVE encode_vec(_, _)
\* the item encoders Replay::encode passes to encode_vec: a turn entry is
\* its step and its inputs, an input a length-prefixed CBOR block
item_encoder(item, value) ==
    IF item = "turn"
    THEN encode_be_u64(value[1]) \o encode_vec("input", value[2])
    ELSE length_encoded(ciborium_into_writer("input", value))

RECURSIVE encode_items(_, _)
encode_items(item, values) ==
    IF values = <<>> THEN <<>>
    ELSE item_encoder(item, Head(values)) \o encode_items(item, Tail(values))

\* encode_vec that forgets the element count
encode_vec_no_count(item, values) == encode_items(item, values)

encode_vec(item, values) ==
    encode_be_u64(Len(values)) \o encode_items(item, values)

\* encode that writes the game version before the game magic
encode_version_first(self) ==
    MAGIC_BYTES
    \o encode_be_u32(REPLAY_FORMAT_VERSION)
    \o encode_be_u32(current_version)
    \o magic_bytes
    \o encode_be_u32(self.rate)
    \o length_encoded(ciborium_into_writer("world", self.initial))
    \o encode_vec("turn", self.inputs)

encode(self) ==
    MAGIC_BYTES
    \o encode_be_u32(REPLAY_FORMAT_VERSION)
    \o magic_bytes
    \o encode_be_u32(current_version)
    \o encode_be_u32(self.rate)
    \o length_encoded(ciborium_into_writer("world", self.initial))
    \o encode_vec("turn", self.inputs)

(***************************************************************************)
(* Decoder (decoder.rs) and the parsers of replay/mod.rs.                  *)
(***************************************************************************)
\* nom::bytes::streaming::take
take(count, input) ==
    IF Len(input) < count THEN PIncomplete(count - Len(input))
    ELSE POk(Drop(input, count), Take(input, count))

\* nom::number::streaming::be_u32 (imported by mod.rs)
be_u32(input) ==
    IF Len(input) < 4 THEN PIncomplete(4 - Len(input))
    ELSE POk(Drop(input, 4), from_be_bytes(Take(input, 4)))

\* nom::number::streaming::be_u64 (imported by mod.rs)
be_u64(input) ==
    IF Len(input) < 8 THEN PIncomplete(8 - Len(input))
    ELSE POk(Drop(input, 8), from_be_bytes(Take(input, 8)))

\* nom::number::complete::be_u64 (imported by decoder.rs): a short input is
\* an Error of kind Eof, not Incomplete
complete_be_u64(input) ==
    IF Len(input) < 8 THEN PError(Parsing(input, "Eof"))
    ELSE POk(Drop(input, 8), from_be_bytes(Take(input, 8)))

\* the value from_reader returned, behind map_err(Error::Decoder) and
\* map_err(Err::Failure); the input is reported as consumed whole
ciborium_parse_result(res) ==
    IF res.ok THEN POk(<<>>, res.value) ELSE PFailure(Decoder)

ciborium_parse(ty, input) == ciborium_parse_result(from_reader(ty, input))

\* length_decoding, line 26: the value of the block body
length_decoding_body(input, len, b) ==
    IF b.tag # "Ok" THEN b
    ELSE POk(Drop(input, len), Some(b.value))

\* length_decoding without the len == 0 branch: the inner parser is given
\* the empty slice
length_decoding_block_no_zero(ty, input, len) ==
    IF Len(input) < len
    THEN PError(InvalidLength(len, Len(input)))
    ELSE length_decoding_body(input, len,
             context("block body", ciborium_parse(ty, Take(input, len))))

\* length_decoding whose length check also rejects a block that fills the
\* input exactly
length_decoding_block_exact_fit(ty, input, len) ==
    IF Len(input) <= len
    THEN PError(InvalidLength(len, Len(input)))
    ELSE IF len = 0 THEN POk(input, None)
    ELSE length_decoding_body(input, len,
             context("block body", ciborium_parse(ty, Take(input, len))))

\* length_decoding, lines 15-25: the length check and the restricted slice
length_decoding_block(ty, input, len) ==
    IF Len(input) < len
    THEN PError(InvalidLength(len, Len(input)))
    ELSE IF len = 0 THEN POk(input, None)
    ELSE length_decoding_body(input, len,
             context("block body", ciborium_parse(ty, Take(input, len))))

\* length_decoding, line 14: the ? on the block length
length_decoding_len(ty, l) ==
    IF l.tag # "Ok" THEN l
    ELSE length_decoding_block(ty, l.rest, l.value)

\* length_decoding(ciborium_parse::<T>); ty names T
length_decoding(ty, input) ==
    length_decoding_len(ty, context("block length", complete_be_u64(input)))

\* parse_magic that takes the four bytes and does not compare them
parse_magic_check_any(t) ==
    IF t.tag # "Ok" THEN t ELSE POk(t.rest, <<>>)

\* parse_magic after take(4)?
parse_magic_check(t) ==
    IF t.tag # "Ok" THEN t
    ELSE IF t.value # MAGIC_BYTES THEN PFailure(InvalidMagic(t.value))
    ELSE POk(t.rest, <<>>)

parse_magic(input) == parse_magic_check(take(4, input))

\* parse_game_magic after take(4)?
parse_game_magic_check(t) ==
    IF t.tag # "Ok" THEN t
    ELSE IF t.value # magic_bytes THEN PFailure(InvalidMagic(t.value))
    ELSE POk(t.rest, <<>>)

parse_game_magic(input) == parse_game_magic_check(take(4, input))

\* parse_core_version that rejects only versions newer than the supported one
parse_core_version_check_newer(v) ==
    IF v.tag # "Ok" THEN v
    ELSE IF v.value > REPLAY_FORMAT_VERSION
         THEN PFailure(UnsupportedCoreVersion(v.value))
    ELSE v

\* parse_core_version after be_u32?
parse_core_version_check(v) ==
    IF v.tag # "Ok" THEN v
    ELSE IF v.value # REPLAY_FORMAT_VERSION
         THEN PFailure(UnsupportedCoreVersion(v.value))
    ELSE v

parse_core_version(input) == parse_core_version_check(be_u32(input))

\* parse_game_version after be_u32?
parse_game_version_check(v) ==
    IF v.tag # "Ok" THEN v
    ELSE IF ~guard_version(v.value)
         THEN PFailure(UnsupportedGameVersion(v.value))
    ELSE v

parse_game_version(input) == parse_game_version_check(be_u32(input))

\* parse_input that reports an absent input as a recoverable Error
parse_input_some_error(r) ==
    IF r.tag # "Ok" THEN r
    ELSE IF r.value.some THEN POk(r.rest, r.value.value)
    ELSE PError(MissingTurnInput)

\* parse_input after length_decoding?: a block of length 0 is fatal
parse_input_some(r) ==
    IF r.tag # "Ok" THEN r
    ELSE IF r.value.some THEN POk(r.rest, r.value.value)
    ELSE PFailure(MissingTurnInput)

parse_input(input) ==
    parse_input_some(context("turn input", length_decoding("input", input)))

RECURSIVE decode_vec(_, _)
\* parse_turn, lines 200-201: the ? on the turn's inputs
parse_turn_inputs(turn, ins) ==
    IF ins.tag # "Ok" THEN ins
    ELSE POk(ins.rest, <<turn, ins.value>>)

\* parse_turn, line 199: the ? on the turn number
parse_turn_number(t) ==
    IF t.tag # "Ok" THEN t
    ELSE parse_turn_inputs(t.value,
             context("turn inputs", decode_vec("input", t.rest)))

parse_turn(input) == parse_turn_number(context("turn number", be_u64(input)))

\* the item parsers handed to decode_vec
item_parser(item, input) ==
    IF item = "turn" THEN parse_turn(input) ELSE parse_input(input)

\* the for loop of decode_vec: left items to go, result so far
RECURSIVE decode_vec_loop(_, _, _, _)
\* decode_vec, lines 39-41: the ? on the item, then the push
decode_vec_item(item, left, result, r) ==
    IF r.tag # "Ok" THEN r
    ELSE decode_vec_loop(item, left - 1, r.rest, Append(result, r.value))

decode_vec_loop(item, left, cycle_input, result) ==
    IF left = 0 THEN POk(cycle_input, result)
    ELSE decode_vec_item(item, left, result,
             context("vector item", item_parser(item, cycle_input)))

\* decode_vec, line 35: the ? on the vector length
decode_vec_len(item, l) ==
    IF l.tag # "Ok" THEN l
    ELSE decode_vec_loop(item, l.value, l.rest, <<>>)

\* size_of of the items of the vectors: (Turn, Vec<W::Input>) is 8 + 24
\* bytes, TestInput2 (a u32 under a tag) is 8 bytes
item_size(item) == IF item = "turn" THEN 32 ELSE 8

\* Vec::with_capacity(len as usize), line 36: it panics when len items take
\* more than isize::MAX = 2^63 - 1 bytes, that is when the first of the
\* eight bytes of len is at least 2^63 / (2^56 * size)
capacity_overflow(item, count) == count[1] >= 128 \div item_size(item)

decode_vec(item, input) ==
    IF Len(input) >= 8 /\ capacity_overflow(item, Take(input, 8))
    THEN PPanic
    ELSE decode_vec_len(item, context("vector length", complete_be_u64(input)))

unwrap_or_default(opt) == IF opt.some THEN opt.value ELSE WorldDefault

\* Replay::parser, one definition for each ? of its body, last line first
parser_inputs(rate, initial, r) ==
    IF r.tag # "Ok" THEN r
    ELSE POk(r.rest, [rate    |-> rate,
                      initial |-> unwrap_or_default(initial),
                      inputs  |-> r.value])

parser_initial(rate, r) ==
    IF r.tag # "Ok" THEN r
    ELSE parser_inputs(rate, r.value,
                       context("inputs", decode_vec("turn", r.rest)))

parser_rate(r) ==
    IF r.tag # "Ok" THEN r
    ELSE parser_initial(r.value,
             context("initial world", length_decoding("world", r.rest)))

parser_game_version(r) ==
    IF r.tag # "Ok" THEN r
    ELSE parser_rate(context("simulation rate", be_u32(r.rest)))

parser_game_magic(r) ==
    IF r.tag # "Ok" THEN r
    ELSE parser_game_version(context("game version", parse_game_version(r.rest)))

parser_core_version(r) ==
    IF r.tag # "Ok" THEN r
    ELSE parser_game_magic(context("game magic bytes", parse_game_magic(r.rest)))

parser_magic(r) ==
    IF r.tag # "Ok" THEN r
    ELSE parser_core_version(context("core version", parse_core_version(r.rest)))

parser(input) == parser_magic(context("core magic bytes", parse_magic(input)))

\* Result<T, Error>
Ok(value) == [tag |-> "Ok", value |-> value]

Err(e) == [tag |-> "Err", err |-> e]

\* decode that accepts a container only when the parser consumed all bytes
decode_match_all_consuming(r) ==
    IF r.tag = "Ok"
    THEN IF r.rest = <<>> THEN Ok(r.value) ELSE Err(Parsing(r.rest, "Eof"))
    ELSE IF r.tag = "Incomplete" THEN Err(ErrIncomplete(r.needed))
    ELSE IF r.tag = "Panic" THEN r
    ELSE Err(r.err)

\* Replay::decode: the match on the parser's result
decode_match(r) ==
    IF r.tag = "Ok" THEN Ok(r.value)
    ELSE IF r.tag = "Incomplete" THEN Err(ErrIncomplete(r.needed))
    ELSE IF r.tag = "Panic" THEN r
    ELSE Err(r.err)

decode(bytes) == decode_match(parser(bytes))

\* Replay::new
new(world, rate) == [rate |-> rate, initial |-> world, inputs |-> <<>>]

(***************************************************************************)
(* State.                                                                  *)
(***************************************************************************)
VARIABLES
    replay,       \* the Replay instance: [rate, initial, inputs]
    lastCall,     \* the last record call: its turn and what it returned
    sink,         \* the bytes encode wrote (a buffer, or the file of save)
    written,      \* how sink came about: "none", "valid", or the field changed
    decoded,      \* what Replay::decode returned on sink, None before the call
    pc,           \* Replay::load: "idle", "loop" (in the read loop), "returned"
    chunk,        \* the most bytes the source delivers in one read
    pos,          \* the file offset of the open source
    buff,         \* load's accumulated buffer
    last_needed,  \* load's last_needed: Option<Needed>
    loaded,       \* what Replay::load returned, None before it returns
    zero_reads,   \* how many reads of the load returned n == 0
    block         \* one length-prefixed block: what length_encoded wrote for
                  \* a body and what length_decoding made of it

vars == <<replay, lastCall, sink, written, decoded,
          pc, chunk, pos, buff, last_needed, loaded, zero_reads, block>>

loadVars == <<pc, chunk, pos, buff, last_needed, loaded, zero_reads>>

NoCall == [turn |-> 0, result |-> [tag |-> "none"]]

NoBlock == [tag |-> "none"]

OkUnit == Ok(<<>>)

Init ==
    /\ \E world \in Worlds, rate \in Rates : replay = new(world, rate)
    /\ lastCall = NoCall
    /\ sink = <<>>
    /\ written = "none"
    /\ decoded = None
    /\ pc = "idle"
    /\ chunk = 0
    /\ pos = 0
    /\ buff = <<>>
    /\ last_needed = None
    /\ loaded = None
    /\ zero_reads = 0
    /\ block = NoBlock

(***************************************************************************)
(* Replay::record.                                                         *)
(***************************************************************************)
\* record with the turn compared by > instead of >=: a repeated turn passes
record_allow_equal(self, turn, inputs) ==
    IF self.inputs # <<>> /\ self.inputs[Len(self.inputs)][1] > turn
    THEN [self   |-> self,
          result |-> Err(IncoherentTurn(self.inputs[Len(self.inputs)][1], turn))]
    ELSE [self   |-> [self EXCEPT !.inputs = Append(@, <<turn, inputs>>)],
          result |-> OkUnit]

\* record that appends the entry before it checks the turn
record_push_first(self, turn, inputs) ==
    IF self.inputs # <<>> /\ self.inputs[Len(self.inputs)][1] >= turn
    THEN [self   |-> [self EXCEPT !.inputs = Append(@, <<turn, inputs>>)],
          result |-> Err(IncoherentTurn(self.inputs[Len(self.inputs)][1], turn))]
    ELSE [self   |-> [self EXCEPT !.inputs = Append(@, <<turn, inputs>>)],
          result |-> OkUnit]

\* record that puts the entry in the place of the last one
record_replace_last(self, turn, inputs) ==
    IF self.inputs # <<>> /\ self.inputs[Len(self.inputs)][1] >= turn
    THEN [self   |-> self,
          result |-> Err(IncoherentTurn(self.inputs[Len(self.inputs)][1], turn))]
    ELSE [self   |-> [self EXCEPT !.inputs =
                        Append(Take(@, Len(@) - 1), <<turn, inputs>>)],
          result |-> OkUnit]

\* the Replay after record(turn, inputs) and the value record returns
record(self, turn, inputs) ==
    IF self.inputs # <<>> /\ self.inputs[Len(self.inputs)][1] >= turn
    THEN [self   |-> self,
          result |-> Err(IncoherentTurn(self.inputs[Len(self.inputs)][1], turn))]
    ELSE [self   |-> [self EXCEPT !.inputs = Append(@, <<turn, inputs>>)],
          result |-> OkUnit]

\* The tests build a Replay with record and then hand it over by value to
\* the helper that encodes or saves it: record is called before that.
Record(turn, inputs) ==
    /\ written = "none"
    /\ Len(record(replay, turn, inputs).self.inputs) <= MaxLog
    /\ replay' = record(replay, turn, inputs).self
    /\ lastCall' = [turn |-> turn, result |-> record(replay, turn, inputs).result]
    /\ UNCHANGED <<sink, written, decoded>>
    /\ UNCHANGED loadVars
    /\ UNCHANGED block

(***************************************************************************)
(* Replay::encode into a fresh buffer, Replay::decode of the buffer.       *)
(***************************************************************************)
Encode ==
    /\ written = "none"
    /\ sink' = encode(replay)
    /\ written' = "valid"
    /\ UNCHANGED <<replay, lastCall, decoded>>
    /\ UNCHANGED loadVars
    /\ UNCHANGED block

Decode ==
    /\ written # "none"
    /\ decoded = None
    /\ decoded' = Some(decode(sink))
    /\ UNCHANGED <<replay, lastCall, sink, written>>
    /\ UNCHANGED loadVars
    /\ UNCHANGED block

(***************************************************************************)
(* Containers that differ from a valid one in one field: the bytes a       *)
(* caller may hand to Replay::decode.                                      *)
(***************************************************************************)
\* bytes with the Len(field) bytes after offset off replaced by field
ReplaceAt(bytes, off, field) ==
    Take(bytes, off) \o field \o Drop(bytes, off + Len(field))

\* b"STGS", b"TWD2": four bytes that are not MAGIC_BYTES
BadCoreMagics == {<<83, 84, 71, 83>>, magic_bytes}

\* b"TWD1", b"STGR": four bytes that are not W::magic_bytes()
BadGameMagics == {<<84, 87, 68, 49>>, MAGIC_BYTES}

BadVersions == {0, 2, 258}

\* what follows a zeroed input block: the rest of the container, nothing,
\* or the block's former payload and the rest
Tails == {"rest", "cut", "payload"}

\* offset of input block j of log entry i in encode(self)
InputBlockOffset(self, i, j) ==
    Len(encode([self EXCEPT !.inputs = Take(@, i - 1)]))
    + 8 + Len(encode_vec("input", Take(self.inputs[i][2], j - 1)))

Tamper(bytes, kind) ==
    /\ written = "valid"
    /\ decoded = None
    /\ pc = "idle"
    /\ sink' = bytes
    /\ written' = kind
    /\ UNCHANGED <<replay, lastCall, decoded>>
    /\ UNCHANGED loadVars
    /\ UNCHANGED block

CorruptCoreMagic(found) == Tamper(ReplaceAt(sink, 0, found), "core magic")

CorruptGameMagic(found) == Tamper(ReplaceAt(sink, 8, found), "game magic")

SetCoreVersion(v) == Tamper(ReplaceAt(sink, 4, encode_be_u32(v)), "core version")

SetGameVersion(v) == Tamper(ReplaceAt(sink, 12, encode_be_u32(v)), "game version")

\* the initial-state block becomes the prefix L = 0 with no payload
EmptyInitialBlock ==
    LET body == ciborium_into_writer("world", replay.initial)
    IN  Tamper(Take(sink, 20) \o encode_be_u64(0) \o Drop(sink, 28 + Len(body)),
               "empty initial")

\* input block j of log entry i becomes the prefix L = 0
EmptyInputBlock(i, j, tail) ==
    LET off  == InputBlockOffset(replay, i, j)
        body == ciborium_into_writer("input", replay.inputs[i][2][j])
    IN  Tamper(Take(sink, off) \o encode_be_u64(0)
                 \o (IF tail = "rest" THEN Drop(sink, off + 8 + Len(body))
                     ELSE IF tail = "payload" THEN Drop(sink, off + 8)
                     ELSE <<>>),
               "empty input")

\* the offsets of the input blocks of encode(self)
InputBlockOffsets(self) ==
    UNION {{InputBlockOffset(self, i, j) : j \in 1..Len(self.inputs[i][2])} :
             i \in 1..Len(self.inputs)}

\* the initial-state block declares one byte more than the container holds
\* after its length prefix
OversizeInitialBlock ==
    Tamper(ReplaceAt(sink, 20, encode_be_u64(Len(sink) - 27)), "initial length")

\* the input block at offset off declares one byte more than follows it
OversizeInputBlock(off) ==
    Tamper(ReplaceAt(sink, off, encode_be_u64(Len(sink) - off - 7)),
           "input length")

\* the payload of the initial-state block starts with the CBOR integer 0
\* where the map of a TestWorld2 is expected
CorruptInitialBody == Tamper(ReplaceAt(sink, 28, <<0>>), "initial body")

\* the payload of the input block at offset off starts with the integer 0
CorruptInputBody(off) == Tamper(ReplaceAt(sink, off + 8, <<0>>), "input body")

\* bytes put after a serialized value inside its block
PadBytes == {<<0>>, <<255, 161>>}

\* the block at offset off holds its value followed by pad, and declares
\* the length of both
PadBlock(off, pad, kind) ==
    Tamper(Take(sink, off)
             \o encode_be_u64(from_be_bytes(SubSeq(sink, off + 1, off + 8))
                                + Len(pad))
             \o SubSeq(sink, off + 9,
                       off + 8 + from_be_bytes(SubSeq(sink, off + 1, off + 8)))
             \o pad
             \o Drop(sink, off + 8 + from_be_bytes(SubSeq(sink, off + 1, off + 8))),
           kind)

PadInitialBlock(pad) == PadBlock(20, pad, "padded initial")

PadInputBlock(off, pad) == PadBlock(off, pad, "padded input")

\* the offset of the turn log of encode(self): its u64 entry count
LogOffset(self) == Len(encode([self EXCEPT !.inputs = <<>>])) - 8

\* the offset of log entry i of encode(self): its u64 turn
EntryOffset(self, i) == Len(encode([self EXCEPT !.inputs = Take(@, i - 1)]))

\* u64 counts of 2^60 and 2^64 - 1 items
HugeCounts ==
    {<<16, 0, 0, 0, 0, 0, 0, 0>>, <<255, 255, 255, 255, 255, 255, 255, 255>>}

\* the entry count of the turn log is replaced
SetLogCount(count) == Tamper(ReplaceAt(sink, LogOffset(replay), count), "log count")

\* the input count of log entry i is replaced
SetInputCount(i, count) ==
    Tamper(ReplaceAt(sink, EntryOffset(replay, i) + 8, count), "input count")

\* the turn of log entry i is replaced by a turn that is not above the
\* turn of the entry before it
SetTurn(i, turn) ==
    /\ 1 < i /\ i <= Len(replay.inputs)
    /\ turn <= replay.inputs[i - 1][1]
    /\ Tamper(ReplaceAt(sink, EntryOffset(replay, i), encode_be_u64(turn)),
              "turn order")

\* bytes that follow a container: one byte, a magic, a second container
TrailingBytes(bytes) == {<<0>>, MAGIC_BYTES, bytes}

AppendTrailing(extra) == Tamper(sink \o extra, "trailing")

(***************************************************************************)
(* One length-prefixed block on its own: the guarded serializer fills the  *)
(* buffer of length_encoded, length_encoded writes the block, and          *)
(* length_decoding reads the block back, whole or short of its end, with   *)
(* the bytes of a later field after it.                                    *)
(***************************************************************************)
\* the values a block holds; ty names the type ("world": W, "input": W::Input)
BlockValues(ty) ==
    IF ty = "world" THEN Worlds ELSE {Add(4), Sub(2), Add(8)}

\* what ciborium::into_writer did, by the arms of the match in
\* ciborium_into_writer: Ok with the value's bytes in the buffer, Ok or an
\* Io error of kind WriteZero with no byte written, another Io error,
\* another serialization error
Serializations(ty) ==
    {[outcome |-> "Ok", bytes |-> ciborium_into_writer(ty, v)] :
        v \in BlockValues(ty)}
    \cup {[outcome |-> o, bytes |-> <<>>] : o \in {"Ok", "WriteZero", "Io", "Value"}}

\* ciborium_into_writer, lines 41-51: the result of the guard
ciborium_into_writer_match(outcome) ==
    IF outcome = "WriteZero" THEN OkUnit
    ELSE IF outcome = "Io" THEN Err(Encoder)
    ELSE IF outcome = "Value" THEN Err(Encoder)
    ELSE OkUnit

\* length_encoded, lines 26-32: body(&mut buff)? and the writes; ser is what
\* the serializer did
length_encoded_sink(ser) ==
    IF ciborium_into_writer_match(ser.outcome) # OkUnit
    THEN [result |-> ciborium_into_writer_match(ser.outcome), bytes |-> <<>>]
    ELSE [result |-> OkUnit, bytes |-> length_encoded(ser.bytes)]

\* the bytes of a later field that follow a block
Rests == {<<>>, <<7>>, encode_be_u64(0)}

LengthEncoded(ty, ser) ==
    /\ block = NoBlock
    /\ written = "none"
    /\ lastCall = NoCall
    /\ block' = [ty      |-> ty,
                 outcome |-> ser.outcome,
                 body    |-> ser.bytes,
                 result  |-> length_encoded_sink(ser).result,
                 bytes   |-> length_encoded_sink(ser).bytes,
                 cut     |-> 0,
                 input   |-> <<>>,
                 parsed  |-> None]
    /\ UNCHANGED <<replay, lastCall, sink, written, decoded>>
    /\ UNCHANGED loadVars

\* the written block loses the last k bytes of its payload
CutBlock(k) ==
    /\ block # NoBlock
    /\ block.result = OkUnit
    /\ block.cut = 0
    /\ ~block.parsed.some
    /\ k <= Len(block.body)
    /\ block' = [block EXCEPT !.bytes = Take(@, Len(@) - k), !.cut = k]
    /\ UNCHANGED <<replay, lastCall, sink, written, decoded>>
    /\ UNCHANGED loadVars

\* length_decoding(ciborium_parse) on the block followed by rest
LengthDecoding(rest) ==
    /\ block # NoBlock
    /\ block.result = OkUnit
    /\ ~block.parsed.some
    /\ block' = [block EXCEPT
                   !.input = block.bytes \o rest,
                   !.parsed = Some(length_decoding(block.ty, block.bytes \o rest))]
    /\ UNCHANGED <<replay, lastCall, sink, written, decoded>>
    /\ UNCHANGED loadVars

(***************************************************************************)
(* Replay::save and Replay::load.  The file of the path is sink; the       *)
(* source delivers it in reads of at most chunk bytes.                     *)
(***************************************************************************)
\* the size of load's read buffer
CHUNK_SIZE == 8 * 1014 * 1024

\* what one read of the source may deliver at most: a few bytes, or all
\* that the read buffer holds
ChunkSizes == (1..MaxChunk) \cup {CHUNK_SIZE}

\* offsets a file is cut at: empty, inside the header, right after the header
CutPoints == {0, 2, 20}

\* GenericError::into_owned: the borrowed slice of Parsing becomes a Vec,
\* a Context is converted inside, every other error is rebuilt as it is
RECURSIVE into_owned(_)
into_owned(e) ==
    IF e.kind = "Context" THEN Context(e.label, into_owned(e.inner))
    ELSE IF e.kind = "Parsing" THEN Parsing(e.input, e.errkind)
    ELSE e

\* load that reads on after an Error or a Failure of the parser
load_match_retry(buffer, needed, r) ==
    IF r.tag = "Ok"
    THEN [buff |-> buffer, last_needed |-> needed, ret |-> Some(Ok(r.value))]
    ELSE IF r.tag = "Incomplete"
    THEN [buff |-> buffer, last_needed |-> Some(r.needed), ret |-> None]
    ELSE [buff |-> buffer, last_needed |-> needed, ret |-> None]

\* load that records the first shortage only
load_match_first_needed(buffer, needed, r) ==
    IF r.tag = "Ok"
    THEN [buff |-> buffer, last_needed |-> needed, ret |-> Some(Ok(r.value))]
    ELSE IF r.tag = "Incomplete"
    THEN [buff |-> buffer,
          last_needed |-> IF needed.some THEN needed ELSE Some(r.needed),
          ret |-> None]
    ELSE [buff |-> buffer, last_needed |-> needed,
          ret |-> Some(Err(into_owned(r.err)))]

\* load, lines 102-109: the match on the parse of the accumulated buffer;
\* ret is the value load returns, None while the loop goes on
load_match(buffer, needed, r) ==
    IF r.tag = "Ok"
    THEN [buff |-> buffer, last_needed |-> needed, ret |-> Some(Ok(r.value))]
    ELSE IF r.tag = "Incomplete"
    THEN [buff |-> buffer, last_needed |-> Some(r.needed), ret |-> None]
    ELSE [buff |-> buffer, last_needed |-> needed,
          ret |-> Some(Err(into_owned(r.err)))]

\* load without the n == 0 exit
load_iteration_no_eof(buffer, needed, data) ==
    load_match(buffer \o data, needed, parser(buffer \o data))

\* load, lines 88-109: one iteration of the loop, data being the n bytes
\* the read delivered
load_iteration(buffer, needed, data) ==
    IF data = <<>> /\ needed.some
    THEN [buff |-> buffer, last_needed |-> needed,
          ret |-> Some(Err(ErrIncomplete(needed.value)))]
    ELSE load_match(buffer \o data, needed, parser(buffer \o data))

\* f.read(&mut chunk): the next bytes of the file, at most chunk of them
\* and at most the CHUNK_SIZE bytes of the buffer; none at the end
read(file, offset, limit) ==
    SubSeq(file, offset + 1,
           offset + Min(Min(limit, CHUNK_SIZE), Len(file) - offset))

\* save: File::create, then encode into the file
Save ==
    /\ written = "none"
    /\ sink' = encode(replay)
    /\ written' = "valid"
    /\ UNCHANGED <<replay, lastCall, decoded>>
    /\ UNCHANGED loadVars
    /\ UNCHANGED block

\* the file stops short of the container: a truncated or still growing file
Truncate(k) ==
    /\ written = "valid"
    /\ decoded = None
    /\ pc = "idle"
    /\ sink' = Take(sink, k)
    /\ written' = "truncated"
    /\ UNCHANGED <<replay, lastCall, decoded>>
    /\ UNCHANGED loadVars
    /\ UNCHANGED block

\* files that no save wrote: zero bytes, a lone core magic, a core header
\* followed by one byte
ForeignFiles ==
    {<<0, 0, 0, 0, 0>>, MAGIC_BYTES,
     MAGIC_BYTES \o encode_be_u32(REPLAY_FORMAT_VERSION) \o <<84>>}

\* the path holds a foreign file; no Replay has been built on yet
Overwrite(bytes) ==
    /\ written = "none"
    /\ lastCall = NoCall
    /\ pc = "idle"
    /\ sink' = bytes
    /\ written' = "foreign"
    /\ UNCHANGED <<replay, lastCall, decoded>>
    /\ UNCHANGED loadVars
    /\ UNCHANGED block

\* load, lines 84-86: the file save wrote is opened
LoadOpen(limit) ==
    /\ written # "none"
    /\ pc = "idle"
    /\ pc' = "loop"
    /\ chunk' = limit
    /\ pos' = 0
    /\ buff' = <<>>
    /\ last_needed' = None
    /\ zero_reads' = 0
    /\ UNCHANGED <<replay, lastCall, sink, written, decoded, loaded, block>>

\* load, lines 87-110: one iteration of the read loop
LoadRead ==
    /\ pc = "loop"
    /\ pos' = pos + Len(read(sink, pos, chunk))
    /\ buff' = load_iteration(buff, last_needed, read(sink, pos, chunk)).buff
    /\ last_needed' =
         load_iteration(buff, last_needed, read(sink, pos, chunk)).last_needed
    /\ loaded' = load_iteration(buff, last_needed, read(sink, pos, chunk)).ret
    /\ pc' = IF loaded'.some THEN "returned" ELSE "loop"
    /\ zero_reads' = IF read(sink, pos, chunk) = <<>>
                     THEN Min(zero_reads + 1, MaxZeroReads)
                     ELSE zero_reads
    /\ UNCHANGED <<replay, lastCall, sink, written, decoded, chunk, block>>

(***************************************************************************)
(* Specification of the codec: build a Replay, encode it, decode the bytes *)
(* or bytes that differ from them in one field.                            *)
(***************************************************************************)
Next ==
    \/ \E turn \in Turns, inputs \in Batches : Record(turn, inputs)
    \/ Encode
    \/ \E found \in BadCoreMagics : CorruptCoreMagic(found)
    \/ \E found \in BadGameMagics : CorruptGameMagic(found)
    \/ \E v \in BadVersions : SetCoreVersion(v)
    \/ \E v \in BadVersions : SetGameVersion(v)
    \/ EmptyInitialBlock
    \/ \E i \in 1..Len(replay.inputs) :
         \E j \in 1..Len(replay.inputs[i][2]) :
           \E tail \in Tails : EmptyInputBlock(i, j, tail)
    \/ OversizeInitialBlock
    \/ \E off \in InputBlockOffsets(replay) : OversizeInputBlock(off)
    \/ CorruptInitialBody
    \/ \E off \in InputBlockOffsets(replay) : CorruptInputBody(off)
    \/ \E pad \in PadBytes : PadInitialBlock(pad)
    \/ \E off \in InputBlockOffsets(replay) :
         \E pad \in PadBytes : PadInputBlock(off, pad)
    \/ \E extra \in TrailingBytes(sink) : AppendTrailing(extra)
    \/ \E k \in CutPoints : Truncate(k)
    \/ \E count \in HugeCounts : SetLogCount(count)
    \/ \E i \in 1..Len(replay.inputs) :
         \E count \in HugeCounts : SetInputCount(i, count)
    \/ \E i \in 1..Len(replay.inputs), turn \in Turns : SetTurn(i, turn)
    \/ Decode

Spec == Init /\ [][Next]_vars

(***************************************************************************)
(* Specification of save and load: build a Replay, save it, load the file  *)
(* from a source that delivers it in reads of some size.                   *)
(***************************************************************************)
NextLoad ==
    \/ \E turn \in Turns, inputs \in Batches : Record(turn, inputs)
    \/ Save
    \/ \E k \in CutPoints : Truncate(k)
    \/ CorruptGameMagic(MAGIC_BYTES)
    \/ SetCoreVersion(2)
    \/ OversizeInitialBlock
    \/ CorruptInitialBody
    \/ AppendTrailing(<<0>>)
    \/ \E bytes \in ForeignFiles : Overwrite(bytes)
    \/ \E limit \in ChunkSizes : LoadOpen(limit)
    \/ LoadRead

SpecLoad == Init /\ [][NextLoad]_vars

(***************************************************************************)
(* Specification of the block framing: length_encoded and length_decoding  *)
(* applied to one block.                                                   *)
(***************************************************************************)
NextBlock ==
    \/ \E ty \in {"world", "input"} :
         \E ser \in Serializations(ty) : LengthEncoded(ty, ser)
    \/ \E k \in 1..MaxCut : CutBlock(k)
    \/ \E rest \in Rests : LengthDecoding(rest)

SpecBlock == Init /\ [][NextBlock]_vars

(***************************************************************************)
(* Properties.                                                             *)
(***************************************************************************)
\* the turn of the last entry of a non-empty log
LastTurn(self) == self.inputs[Len(self.inputs)][1]

\* the big-endian u32 field at offset off of a container
FieldU32(bytes, off) == from_be_bytes(SubSeq(bytes, off + 1, off + 4))

\* C1: decode of the bytes encode wrote for a Replay built by new and
\* record succeeds and returns that Replay (rate, initial and inputs).
RoundTrip ==
    (written = "valid" /\ decoded.some) => decoded.value = Ok(replay)

RoundTripWitness ==
    /\ written = "valid"
    /\ decoded.some
    /\ decoded.value.tag = "Ok"
    /\ replay.initial = World(42)
    /\ Len(replay.inputs) = 2
    /\ replay.inputs[1][2] = <<>>
    /\ Len(replay.inputs[2][2]) = 2

\* C2: a record call on a non-empty log with last turn t0 returns
\* IncoherentTurn(t0, t) exactly when t <= t0 and Ok otherwise, on an empty
\* log it returns Ok, and a failing call leaves the Replay as it was.
RecordMonotonic ==
    [][lastCall' # lastCall =>
         /\ replay.inputs = <<>> => lastCall'.result = OkUnit
         /\ replay.inputs # <<>> =>
              /\ lastCall'.turn <= LastTurn(replay) <=>
                   lastCall'.result =
                     Err(IncoherentTurn(LastTurn(replay), lastCall'.turn))
              /\ lastCall'.turn > LastTurn(replay) <=> lastCall'.result = OkUnit
         /\ lastCall'.result # OkUnit => replay' = replay]_vars

RecordMonotonicWitness ==
    /\ lastCall.result = Err(IncoherentTurn(1, 1))
    /\ Len(replay.inputs) = 1

\* C3: a load of a valid file returns what the load returns that reads the
\* whole file in one read, whatever the size of the reads.
ChunkedLoadEquivalence ==
    (written = "valid" /\ pc = "returned") =>
        loaded = load_iteration(<<>>, None, sink).ret

\* C4: the parse of every proper prefix of a valid container is Incomplete.
PartialReadsIncomplete ==
    written = "valid" =>
        \A k \in 0..(Len(sink) - 1) : parser(Take(sink, k)).tag = "Incomplete"

\* C5: load of the file save wrote returns the Replay that was saved.
SaveLoadRoundTrip ==
    (written = "valid" /\ pc = "returned") => loaded = Some(Ok(replay))

\* C6: with the core magic or the game magic of a valid container replaced
\* by four other bytes, decode returns InvalidMagic of the four bytes found
\* (under the field's context label) and no Replay.
MagicGuard ==
    decoded.some =>
        /\ written = "core magic" =>
             decoded.value =
               Err(Context("core magic bytes", InvalidMagic(SubSeq(sink, 1, 4))))
        /\ written = "game magic" =>
             decoded.value =
               Err(Context("game magic bytes", InvalidMagic(SubSeq(sink, 9, 12))))

MagicGuardWitness ==
    /\ written = "core magic"
    /\ decoded.some
    /\ decoded.value.tag = "Err"
    /\ SubSeq(sink, 1, 4) = magic_bytes

\* C7: a core_version field v other than REPLAY_FORMAT_VERSION makes decode
\* return UnsupportedCoreVersion(v); decode of a container with a valid core
\* header and game magic fails exactly when its game_version field v is not
\* current_version, and then with UnsupportedGameVersion(v).
VersionGuard ==
    decoded.some =>
        /\ written = "core version" =>
             decoded.value =
               Err(Context("core version",
                           UnsupportedCoreVersion(FieldU32(sink, 4))))
        /\ written = "game version" =>
             decoded.value =
               Err(Context("game version",
                           UnsupportedGameVersion(FieldU32(sink, 12))))
        /\ written \in {"valid", "game version"} =>
             (decoded.value.tag = "Err" <=> FieldU32(sink, 12) # current_version)

VersionGuardWitness ==
    /\ written = "core version"
    /\ decoded.some
    /\ decoded.value.tag = "Err"
    /\ FieldU32(sink, 4) = 0

\* C8: a valid container whose initial-state block is the length 0 decodes
\* to the Replay with the default World and the rate and inputs it stores.
DefaultOnEmptyInitial ==
    (written = "empty initial" /\ decoded.some) =>
        decoded.value = Ok([replay EXCEPT !.initial = WorldDefault])

DefaultOnEmptyInitialWitness ==
    /\ written = "empty initial"
    /\ decoded.some
    /\ replay.initial # WorldDefault
    /\ Len(replay.inputs) = 2
    /\ decoded.value.tag = "Ok"
    /\ decoded.value.value.initial = WorldDefault

\* C9: a container valid up to an input block whose length is 0 makes the
\* parser return a Failure, and decode the error MissingTurnInput, whatever
\* follows the block.
MissingTurnInputFatal ==
    (written = "empty input" /\ decoded.some) =>
        /\ parser(sink).tag = "Failure"
        /\ decoded.value.tag = "Err"
        /\ Cause(decoded.value.err) = MissingTurnInput

MissingTurnInputFatalWitness ==
    /\ written = "empty input"
    /\ decoded.some
    /\ decoded.value.tag = "Err"
    /\ Len(replay.inputs) = 2
    /\ Len(replay.inputs[2][2]) = 2

\* C10: the turns of the log are strictly increasing in insertion order.
TurnsStrictlyIncreasing ==
    \A i \in 1..(Len(replay.inputs) - 1) :
        replay.inputs[i][1] < replay.inputs[i + 1][1]

TurnsStrictlyIncreasingWitness ==
    /\ Len(replay.inputs) = 2
    /\ replay.inputs[1][1] = 0
    /\ replay.inputs[2][1] = 2
    /\ lastCall.result.tag = "Err"

\* the n bytes at offset off of bytes, nothing when they are not all there
SliceAt(bytes, off, n) ==
    IF off >= 0 /\ off + n <= Len(bytes)
    THEN SubSeq(bytes, off + 1, off + n)
    ELSE <<>>

\* the big-endian u64 field at offset off of a container
FieldU64(bytes, off) == from_be_bytes(SliceAt(bytes, off, 8))

\* the offset after the length-prefixed block with payload body when the
\* bytes at off are that block, -1 when they are not
BlockEnd(bytes, off, body) ==
    IF /\ off >= 0
       /\ off + 8 + Len(body) <= Len(bytes)
       /\ FieldU64(bytes, off) = Len(body)
       /\ SliceAt(bytes, off + 8, Len(body)) = body
    THEN off + 8 + Len(body)
    ELSE -1

\* the offset after the input blocks of batch laid out from off in batch
\* order, -1 when the bytes are not these blocks
RECURSIVE InputBlocksEnd(_, _, _)
InputBlocksEnd(bytes, off, batch) ==
    IF off < 0 \/ batch = <<>> THEN off
    ELSE InputBlocksEnd(bytes,
             BlockEnd(bytes, off, ciborium_into_writer("input", Head(batch))),
             Tail(batch))

\* the offset after the turn entries laid out from off in log order: the
\* u64 turn, the u64 input count M, the M input blocks
RECURSIVE EntriesEnd(_, _, _)
EntriesEnd(bytes, off, entries) ==
    IF off < 0 \/ entries = <<>> THEN off
    ELSE IF /\ off + 16 <= Len(bytes)
            /\ FieldU64(bytes, off) = Head(entries)[1]
            /\ FieldU64(bytes, off + 8) = Len(Head(entries)[2])
         THEN EntriesEnd(bytes,
                  InputBlocksEnd(bytes, off + 16, Head(entries)[2]),
                  Tail(entries))
    ELSE -1

\* C11: the bytes encode writes are, in this order and nothing else: STGR,
\* core_version (u32), the game magic, the game version (u32), rate (u32),
\* the initial-state block (u64 length, payload), the u64 entry count
\* N = Len(inputs) and, for each entry in log order, the u64 turn, the u64
\* input count M and the M length-prefixed input blocks in batch order.
ContainerLayout ==
    written = "valid" =>
        /\ SliceAt(sink, 0, 4) = <<83, 84, 71, 82>>
        /\ FieldU32(sink, 4) = REPLAY_FORMAT_VERSION
        /\ SliceAt(sink, 8, 4) = magic_bytes
        /\ FieldU32(sink, 12) = current_version
        /\ FieldU32(sink, 16) = replay.rate
        /\ BlockEnd(sink, 20, ciborium_into_writer("world", replay.initial)) > 0
        /\ FieldU64(sink,
               BlockEnd(sink, 20, ciborium_into_writer("world", replay.initial)))
             = Len(replay.inputs)
        /\ EntriesEnd(sink,
               BlockEnd(sink, 20, ciborium_into_writer("world", replay.initial)) + 8,
               replay.inputs)
             = Len(sink)

ContainerLayoutWitness ==
    /\ written = "valid"
    /\ replay.rate = 15360
    /\ Len(replay.inputs) = 2
    /\ replay.inputs[1] = <<1, <<Sub(2), Add(8)>>>>
    /\ replay.inputs[2] = <<2, <<>>>>
    /\ replay.initial = World(42)

\* the context path of an error: the labels of its Context wrappers,
\* outermost first
RECURSIVE Labels(_)
Labels(e) == IF e.kind = "Context" THEN <<e.label>> \o Labels(e.inner) ELSE <<>>

\* the labels around an item of a turn's input vector
InputItemPath == <<"inputs", "vector item", "turn inputs", "vector item">>

\* C12: the error decode returns for a structural failure (every error but
\* Incomplete) is the cause raised at the failure point, unchanged, wrapped
\* in the labels of the reads that enclose that point, outermost first.
\* MissingTurnInput is raised by parse_input after its "turn input" read has
\* returned, InvalidLength by length_decoding between its "block length" and
\* "block body" reads.
ContextPath ==
    (decoded.some /\ decoded.value.tag = "Err"
       /\ Cause(decoded.value.err).kind # "Incomplete") =>
        /\ written \in {"core magic", "game magic", "core version",
                        "game version", "initial length", "initial body",
                        "input length", "input body", "empty input",
                        "truncated"}
        /\ written = "core magic" =>
             /\ Labels(decoded.value.err) = <<"core magic bytes">>
             /\ Cause(decoded.value.err) = InvalidMagic(SliceAt(sink, 0, 4))
        /\ written = "core version" =>
             /\ Labels(decoded.value.err) = <<"core version">>
             /\ Cause(decoded.value.err)
                  = UnsupportedCoreVersion(FieldU32(sink, 4))
        /\ written = "game magic" =>
             /\ Labels(decoded.value.err) = <<"game magic bytes">>
             /\ Cause(decoded.value.err) = InvalidMagic(SliceAt(sink, 8, 4))
        /\ written = "game version" =>
             /\ Labels(decoded.value.err) = <<"game version">>
             /\ Cause(decoded.value.err)
                  = UnsupportedGameVersion(FieldU32(sink, 12))
        /\ written = "initial length" =>
             /\ Labels(decoded.value.err) = <<"initial world">>
             /\ Cause(decoded.value.err)
                  = InvalidLength(FieldU64(sink, 20), Len(sink) - 28)
        /\ written = "initial body" =>
             /\ Labels(decoded.value.err) = <<"initial world", "block body">>
             /\ Cause(decoded.value.err) = Decoder
        /\ written = "input length" =>
             /\ Labels(decoded.value.err) = InputItemPath \o <<"turn input">>
             /\ Cause(decoded.value.err).kind = "InvalidLength"
             /\ Cause(decoded.value.err).found
                  = FieldU64(sink, Len(sink) - 8 - Cause(decoded.value.err).has)
             /\ Cause(decoded.value.err).found > Cause(decoded.value.err).has
        /\ written = "input body" =>
             /\ Labels(decoded.value.err)
                  = InputItemPath \o <<"turn input", "block body">>
             /\ Cause(decoded.value.err) = Decoder
        /\ written = "empty input" =>
             /\ Labels(decoded.value.err) = InputItemPath
             /\ Cause(decoded.value.err) = MissingTurnInput
        /\ written = "truncated" =>
             /\ Labels(decoded.value.err) = <<"initial world", "block length">>
             /\ Cause(decoded.value.err) = Parsing(<<>>, "Eof")

ContextPathWitness ==
    /\ written = "input body"
    /\ decoded.some
    /\ decoded.value.tag = "Err"
    /\ Len(Labels(decoded.value.err)) = 6
    /\ Cause(decoded.value.err) = Decoder
    /\ Len(replay.inputs) = 2

\* C13: a block whose declared bytes hold a serialized value followed by
\* more bytes is rejected: decode of a container with such a block returns
\* an error.
ExactConsumption ==
    (written \in {"padded initial", "padded input"} /\ decoded.some) =>
        decoded.value.tag = "Err"

\* C14: when the parse of the accumulated buffer is an Error or a Failure,
\* load returns in that iteration the error converted with into_owned; it
\* has read no byte beyond the buffer, and once it has returned it reads no
\* more.
LoadAbortsOnFailure ==
    /\ [][(/\ pc = "loop"
           /\ ~(read(sink, pos, chunk) = <<>> /\ last_needed.some)
           /\ parser(buff \o read(sink, pos, chunk)).tag \in {"Error", "Failure"})
          => /\ pc' = "returned"
             /\ loaded' = Some(Err(into_owned(
                              parser(buff \o read(sink, pos, chunk)).err)))
             /\ pos' = Len(buff')]_vars
    /\ [](pc = "returned" => ~ENABLED LoadRead)

LoadAbortsOnFailureWitness ==
    /\ pc = "returned"
    /\ written = "game magic"
    /\ chunk = 3
    /\ pos = 12
    /\ pos < Len(sink)
    /\ loaded = Some(Err(Context("game magic bytes", InvalidMagic(MAGIC_BYTES))))

\* C15 as stated: a read returns zero bytes only when a parse attempt has
\* recorded a shortage.
ZeroReadAfterIncomplete ==
    (pc = "loop" /\ read(sink, pos, chunk) = <<>>) => last_needed.some

\* C15: when a read returns zero bytes and a shortage is recorded, load
\* returns Incomplete of the shortage the parse of the buffer reports; a
\* read returns zero bytes with no shortage recorded only as the first read
\* of an empty source, and the loop then records the shortage 4 and reads on.
TruncatedLoadIncomplete ==
    [][(pc = "loop" /\ read(sink, pos, chunk) = <<>>) =>
         /\ last_needed.some =>
              /\ parser(buff) = PIncomplete(last_needed.value)
              /\ pc' = "returned"
              /\ loaded' = Some(Err(ErrIncomplete(last_needed.value)))
         /\ ~last_needed.some =>
              /\ sink = <<>>
              /\ buff = <<>>
              /\ zero_reads = 0
              /\ pc' = "loop"
              /\ last_needed' = Some(4)]_vars

TruncatedLoadIncompleteWitness ==
    /\ pc = "returned"
    /\ written = "truncated"
    /\ Len(sink) = 2
    /\ chunk = 1
    /\ zero_reads = 1
    /\ loaded = Some(Err(ErrIncomplete(2)))

\* what is left of a load: the bytes not yet read and the zero-byte reads
\* it may still make
LoadVariant == (Len(sink) - pos) + (2 - zero_reads)

\* C16: every iteration that does not return reads at least one byte or is
\* the first zero-byte read, so a load of a file of n bytes returns within
\* n + 2 reads, and no later than its second zero-byte read.
LoadTerminates ==
    /\ [][(pc = "loop" /\ pc' = "loop") => LoadVariant' < LoadVariant]_vars
    /\ [](LoadVariant >= 0)
    /\ [](pc = "loop" => zero_reads < 2)

LoadTerminatesWitness ==
    /\ pc = "returned"
    /\ sink = <<>>
    /\ zero_reads = 2
    /\ loaded = Some(Err(ErrIncomplete(4)))

\* C17: the block length_encoded writes is the u64 length of the buffered
\* body and then the body; the guard of the serializer returns Ok when no
\* byte was serialized (Ok or WriteZero from ciborium), the block is then
\* the eight bytes of the prefix 0, and length_decoding reads it as an
\* absent value and leaves what follows the prefix.
ZeroLengthFraming ==
    block # NoBlock =>
        /\ (block.outcome \in {"Ok", "WriteZero"}) => block.result = OkUnit
        /\ (block.result = OkUnit /\ block.cut = 0) =>
             /\ Len(block.bytes) = 8 + Len(block.body)
             /\ FieldU64(block.bytes, 0) = Len(block.body)
             /\ Drop(block.bytes, 8) = block.body
        /\ (block.result = OkUnit /\ block.body = <<>>) =>
             /\ block.bytes = <<0, 0, 0, 0, 0, 0, 0, 0>>
             /\ block.parsed.some =>
                  block.parsed.value = POk(Drop(block.input, 8), None)

ZeroLengthFramingWitness ==
    /\ block # NoBlock
    /\ block.outcome = "WriteZero"
    /\ block.body = <<>>
    /\ block.parsed.some
    /\ block.parsed.value = POk(<<7>>, None)

\* C18: length_decoding fails with InvalidLength(L, bytes available) exactly
\* when the declared length L exceeds the bytes after the prefix, whatever
\* these bytes are; when it succeeds, the input it returns is what follows
\* the L payload bytes, and its value is the one it reads with everything
\* after the L bytes removed.
LengthCheck ==
    (block # NoBlock /\ block.parsed.some) =>
        /\ FieldU64(block.input, 0) > Len(block.input) - 8 <=>
             block.parsed.value =
               PError(InvalidLength(FieldU64(block.input, 0),
                                    Len(block.input) - 8))
        /\ block.parsed.value.tag = "Ok" =>
             /\ block.parsed.value.rest
                  = Drop(block.input, 8 + FieldU64(block.input, 0))
             /\ block.parsed.value.value
                  = length_decoding(block.ty,
                        Take(block.input, 8 + FieldU64(block.input, 0))).value

LengthCheckWitness ==
    /\ block # NoBlock
    /\ block.ty = "world"
    /\ block.cut = 2
    /\ block.parsed.some
    /\ block.parsed.value = PError(InvalidLength(10, 9))
    /\ Len(block.input) = 17

\* C19: a record call that returns Ok appends the one entry (turn, inputs)
\* at the end of the log, for an empty batch as for any other, and leaves
\* the earlier entries, initial and rate as they were; every step that is
\* not a record call (encode, decode) leaves the Replay as it was.
RecordFrame ==
    [][/\ \A turn \in Turns, inputs \in Batches :
            (Record(turn, inputs) /\ lastCall'.result = OkUnit) =>
                /\ Len(replay'.inputs) = Len(replay.inputs) + 1
                /\ replay'.inputs[Len(replay'.inputs)] = <<turn, inputs>>
                /\ Take(replay'.inputs, Len(replay.inputs)) = replay.inputs
                /\ replay'.initial = replay.initial
                /\ replay'.rate = replay.rate
       /\ lastCall' = lastCall => replay' = replay]_vars

RecordFrameWitness ==
    /\ lastCall.result = OkUnit
    /\ lastCall.turn = 2
    /\ Len(replay.inputs) = 2
    /\ replay.inputs[1] = <<0, <<Sub(2), Add(8)>>>>
    /\ replay.inputs[2] = <<2, <<>>>>
    /\ written = "valid"

\* C20: bytes that begin with the container encode wrote for a Replay and
\* go on with other bytes decode to that Replay: the parser stops after the
\* turn log and returns the bytes that follow as remaining input, decode
\* returns Ok of the Replay, and so does load once its buffer holds these
\* bytes.
TrailingBytesIgnored ==
    written = "trailing" =>
        /\ Len(sink) > Len(encode(replay))
        /\ Take(sink, Len(encode(replay))) = encode(replay)
        /\ parser(sink) = POk(Drop(sink, Len(encode(replay))), replay)
        /\ decoded.some => decoded.value = Ok(replay)
        /\ load_iteration(<<>>, None, sink).ret = Some(Ok(replay))

TrailingBytesIgnoredWitness ==
    /\ written = "trailing"
    /\ decoded.some
    /\ decoded.value.tag = "Ok"
    /\ Len(sink) = 2 * Len(encode(replay))
    /\ Len(replay.inputs) = 2
    /\ Len(replay.inputs[1][2]) = 2

\* the result of n applications of the item parser, each to the input the
\* one before left: the items in order and the input after the last, or
\* the failure of the first item that fails, under "vector item"
RECURSIVE ItemsInOrder(_, _, _, _)
ItemsInOrder(item, n, input, items) ==
    IF n = 0 THEN POk(input, items)
    ELSE IF item_parser(item, input).tag # "Ok"
         THEN context("vector item", item_parser(item, input))
    ELSE ItemsInOrder(item, n - 1, item_parser(item, input).rest,
                      Append(items, item_parser(item, input).value))

\* C21: decode_vec on the turn log of a container returns: the N items of
\* the count N in order with the input after the last one, or the failure
\* of the first item that fails.  (The count is compared as a number where
\* it is below 2^31.)
DecodeVecExact ==
    written \in {"valid", "trailing", "empty input", "input body",
                 "input length", "padded input", "input count", "log count"} =>
        /\ decode_vec("turn", Drop(sink, LogOffset(replay))).tag
             \in {"Ok", "Incomplete", "Error", "Failure"}
        /\ written # "log count" =>
             decode_vec("turn", Drop(sink, LogOffset(replay)))
               = ItemsInOrder("turn", FieldU64(sink, LogOffset(replay)),
                              Drop(sink, LogOffset(replay) + 8), <<>>)

\* C22: every Replay that decode returns has strictly increasing turns in
\* its inputs log; a container whose log repeats a turn or lists turns out
\* of order is rejected.
DecodedTurnsIncreasing ==
    (decoded.some /\ decoded.value.tag = "Ok") =>
        /\ \A i \in 1..Len(decoded.value.value.inputs) - 1 :
             decoded.value.value.inputs[i][1] < decoded.value.value.inputs[i + 1][1]
        /\ written # "turn order"

====
